---- MODULE Spec2Model ----
(***************************************************************************)
(* State-machine model of the YAP token program                            *)
(* (contracts/programs/yap): the Config account, the vault and             *)
(* pending-claims token accounts, the per-user claim status accounts and   *)
(* the seven instructions dispatched by processor::process.                *)
(*                                                                         *)
(* Scaling.  TLC integers are 32 bits wide, so the machine widths are      *)
(* scaled: u64 is modelled with 15 bits, u128 with 30 bits and i64 with    *)
(* 15 bits (two's complement); SECONDS_PER_YEAR and INITIAL_SUPPLY are     *)
(* scaled with them.  Every arithmetic step keeps the code's order of      *)
(* operations, its checked/unchecked flavour and its casts.                *)
(*                                                                         *)
(* keccak is modelled as a collision-free function: a digest is a term     *)
(* <<tag, data>>, where tag 0 marks 32 raw bytes that are no known hash    *)
(* output and tag 1 marks keccak(data).                                    *)
(***************************************************************************)
EXTENDS Integers, Sequences, FiniteSets, TLC

VARIABLES
    clock,        \* Clock sysvar: unix_timestamp
    config,       \* data of the Config PDA (discriminator "empty": not created)
    vault,        \* token balance of the vault account
    pending,      \* token balance of the pending_claims account
    wallet,       \* token balance of each user's associated token account
    user_claim,   \* data of each user's UserClaimStatus PDA
    last,         \* the last instruction processed and its ProgramResult
    received,     \* history: tokens each user received through Claim
    redeemed,     \* history: the <<user, amount, proof>> of every successful Claim
    probe         \* a path under verification (used when the verifier is checked alone)

vars == <<clock, config, vault, pending, wallet, user_claim, last, received, redeemed, probe>>

(***************************************************************************)
(* Machine integers                                                        *)
(***************************************************************************)
U64_MAX == 32767
U128_MAX == (U64_MAX * U64_MAX) + (2 * U64_MAX)
I64_MAX == (U64_MAX - 1) \div 2
I64_MIN == (0 - I64_MAX) - 1

\* i64::saturating_sub
saturating_sub(a, b) ==
    IF a - b > I64_MAX THEN I64_MAX
    ELSE IF a - b < I64_MIN THEN I64_MIN
    ELSE a - b

\* `x as u128` for an i64 x: sign extension
i64_as_u128(x) == IF x >= 0 THEN x ELSE (U128_MAX + 1) + x

\* `x as u64` for a u128 x: truncation
u128_as_u64(x) == x % (U64_MAX + 1)

\* u128::checked_mul; -1 stands for None
checked_mul_u128(a, b) ==
    IF a = 0 \/ b = 0 THEN 0
    ELSE IF a > U128_MAX \div b THEN -1
    ELSE a * b

(***************************************************************************)
(* Program constants                                                       *)
(***************************************************************************)
INITIAL_SUPPLY == 8
SECONDS_PER_YEAR == 2
MAX_PROOF_DEPTH == 32
MAX_INFLATION_BPS == 10000
LEAF_DOMAIN == "YAP_CLAIM_V1"

(***************************************************************************)
(* Bounds of the model                                                     *)
(***************************************************************************)
MaxEntitlement == 2   \* largest cumulative entitlement a tree commits to
MaxClock == 2         \* the clock's last value when emission is explored
MaxLeaves == 4        \* largest tree whose paths are verified one by one

Pubkeys == {1, 2}
NoSigner == 0                      \* account 0 did not sign the transaction
Callers == Pubkeys \cup {NoSigner}
Deployer == 1                      \* the key that deploys and initializes
Recipients == <<1, 2>>             \* users the published trees hold leaves for

(***************************************************************************)
(* Digests and the merkle verifier of claim.rs                             *)
(***************************************************************************)
Raw(n) == <<0, <<n>>>>
ZERO_ROOT == Raw(0)                \* [0u8; 32]
keccak_hash(data) == <<1, data>>

\* u64::to_le_bytes, over two base-256 digits, low digit first
to_le_bytes(amount) == <<amount % 256, amount \div 256>>

RECURSIVE SeqLess(_, _, _)
SeqLess(s, t, i) ==
    IF i > Len(s) THEN FALSE
    ELSE IF s[i] # t[i] THEN s[i] < t[i]
    ELSE SeqLess(s, t, i + 1)

\* The order of two digests as byte arrays ([u8; 32] comparison), a total
\* order on the terms: raw bytes by value, hash outputs by their preimages.
RECURSIVE DigestLess(_, _)
DigestLess(a, b) ==
    IF a = b THEN FALSE
    ELSE IF a[1] # b[1] THEN a[1] < b[1]
    ELSE IF a[1] = 0 THEN a[2][1] < b[2][1]
    ELSE IF Len(a[2]) # Len(b[2]) THEN Len(a[2]) > Len(b[2])
    ELSE IF Len(a[2]) = 2
         THEN IF a[2][1] # b[2][1] THEN DigestLess(a[2][1], b[2][1])
              ELSE DigestLess(a[2][2], b[2][2])
    ELSE SeqLess(Tail(a[2]), Tail(b[2]), 1)

DigestLeq(a, b) == a = b \/ DigestLess(a, b)

compute_leaf(walletKey, amount) ==
    keccak_hash(<<LEAF_DOMAIN, walletKey>> \o to_le_bytes(amount))

\* One iteration of the loop of verify_proof
\* a verifier that hashes the running digest first, whatever the order
fold_step_Unsorted(computed_hash, proof_element) ==
    keccak_hash(<<computed_hash, proof_element>>)

\* a fold that puts the larger digest first
fold_step_LargerFirst(computed_hash, proof_element) ==
    IF DigestLeq(computed_hash, proof_element)
    THEN keccak_hash(<<proof_element, computed_hash>>)
    ELSE keccak_hash(<<computed_hash, proof_element>>)

fold_step(computed_hash, proof_element) ==
    IF DigestLeq(computed_hash, proof_element)
    THEN keccak_hash(<<computed_hash, proof_element>>)
    ELSE keccak_hash(<<proof_element, computed_hash>>)

RECURSIVE fold_proof(_, _, _)
fold_proof(computed_hash, proof, i) ==
    IF i > Len(proof) THEN computed_hash
    ELSE fold_proof(fold_step(computed_hash, proof[i]), proof, i + 1)

verify_proof(proof, root, leaf) == fold_proof(leaf, proof, 1) = root

(***************************************************************************)
(* The commitment tree.  It is built off-chain; the program only verifies  *)
(* paths through it.  Leaves are hashed pairwise with the smaller digest   *)
(* first; a node without a sibling moves up unchanged.                     *)
(***************************************************************************)
NextLayer(layer) ==
    [j \in 1..((Len(layer) + 1) \div 2) |->
        IF 2 * j <= Len(layer)
        THEN IF DigestLeq(layer[2 * j - 1], layer[2 * j])
             THEN keccak_hash(<<layer[2 * j - 1], layer[2 * j]>>)
             ELSE keccak_hash(<<layer[2 * j], layer[2 * j - 1]>>)
        ELSE layer[2 * j - 1]]

RECURSIVE TreeRoot(_)
TreeRoot(layer) ==
    IF Len(layer) = 1 THEN layer[1] ELSE TreeRoot(NextLayer(layer))

RECURSIVE ProofFor(_, _)
ProofFor(layer, i) ==
    IF Len(layer) = 1 THEN <<>>
    ELSE LET sib == IF i % 2 = 1 THEN i + 1 ELSE i - 1
             rest == ProofFor(NextLayer(layer), (i + 1) \div 2)
         IN  IF sib <= Len(layer) THEN <<layer[sib]>> \o rest ELSE rest

\* An entitlement table gives each recipient a cumulative amount.  The
\* tables published vary the first recipient's amount.
Tables == {t \in [1..Len(Recipients) -> 1..MaxEntitlement] : t[2] = MaxEntitlement}
LeavesOf(t) == [i \in 1..Len(Recipients) |-> compute_leaf(Recipients[i], t[i])]

\* A path of n opaque siblings above a leaf (a sparse tree of depth n).
LongProof(n) == [i \in 1..n |-> Raw(i)]
LongRoot(n) == fold_proof(compute_leaf(Recipients[1], 1), LongProof(n), 1)

(***************************************************************************)
(* Inputs of the instructions                                              *)
(***************************************************************************)
RootInputs ==
    {ZERO_ROOT, LongRoot(MAX_PROOF_DEPTH), LongRoot(MAX_PROOF_DEPTH + 1)}
    \cup {TreeRoot(LeavesOf(t)) : t \in Tables}

ProofInputs ==
    {<<>>, LongProof(MAX_PROOF_DEPTH), LongProof(MAX_PROOF_DEPTH + 1)}
    \cup {ProofFor(LeavesOf(t), i) : t \in Tables, i \in 1..Len(Recipients)}

ClaimAmounts == 0..MaxEntitlement
DistributeAmounts == {0, 1, 2 * MaxEntitlement}
BurnAmounts == {0, MaxEntitlement, U64_MAX}

(***************************************************************************)
(* Accounts                                                                *)
(***************************************************************************)
EmptyConfig ==
    [discriminator |-> "empty", mint |-> "none", vault |-> "none",
     pending_claims |-> "none", merkle_root |-> ZERO_ROOT, merkle_updater |-> 0,
     current_supply |-> 0, last_inflation_ts |-> 0, last_distribution_ts |-> 0,
     admin |-> 0, inflation_rate_bps |-> 0]

EmptyClaim == [discriminator |-> "empty", claimed_amount |-> 0, total_burned |-> 0]

IdleProbe ==
    [stage |-> "idle", replaced |-> "nothing", entries |-> <<>>, proof |-> <<>>, root |-> ZERO_ROOT,
     wallet |-> 0, amount |-> 0, result |-> FALSE]

RECURSIVE SumOver(_, _)
SumOver(f, S) ==
    IF S = {} THEN 0
    ELSE LET x == CHOOSE y \in S : TRUE IN f[x] + SumOver(f, S \ {x})

\* supply field of the SPL mint: every token in existence
MintSupply == vault + pending + SumOver(wallet, Pubkeys)

Init ==
    /\ clock = 0
    /\ config = EmptyConfig
    /\ vault = 0
    /\ pending = 0
    /\ wallet = [u \in Pubkeys |-> 0]
    /\ user_claim = [u \in Pubkeys |-> EmptyClaim]
    /\ last = [op |-> "none", err |-> "Ok"]
    /\ received = [u \in Pubkeys |-> 0]
    /\ redeemed = {}
    /\ probe = IdleProbe

Result(op, err) == [op |-> op, err |-> err]

Ledger == <<config, vault, pending, wallet, user_claim>>
History == <<received, redeemed>>

\* A failed instruction: the runtime discards every account change.
Rejected(op, err) ==
    /\ last' = Result(op, err)
    /\ UNCHANGED <<clock, Ledger, History>>

(***************************************************************************)
(* initialize::process                                                     *)
(***************************************************************************)
\* a handler that provisions again over an existing config
InitializeErr_Again(caller, merkle_updater, inflation_rate_bps) ==
    IF caller = NoSigner THEN "Unauthorized"
    ELSE IF inflation_rate_bps > MAX_INFLATION_BPS THEN "InvalidInstruction"
    ELSE IF MintSupply + INITIAL_SUPPLY > U64_MAX THEN "TokenOverflow"
    ELSE "Ok"

InitializeErr(caller, merkle_updater, inflation_rate_bps) ==
    IF caller = NoSigner THEN "Unauthorized"
    ELSE IF inflation_rate_bps > MAX_INFLATION_BPS THEN "InvalidInstruction"
    ELSE IF config.discriminator # "empty" THEN "AlreadyInitialized"
    ELSE IF MintSupply + INITIAL_SUPPLY > U64_MAX THEN "TokenOverflow"
    ELSE "Ok"

Initialize(caller, merkle_updater, inflation_rate_bps) ==
    LET err == InitializeErr(caller, merkle_updater, inflation_rate_bps) IN
    IF err # "Ok" THEN Rejected("Initialize", err)
    ELSE /\ config' = [discriminator |-> "yapconfg",
                       mint |-> "mint_pda",
                       vault |-> "vault_pda",
                       pending_claims |-> "pending_claims_pda",
                       merkle_root |-> ZERO_ROOT,
                       merkle_updater |-> merkle_updater,
                       current_supply |-> INITIAL_SUPPLY,
                       last_inflation_ts |-> clock,
                       last_distribution_ts |-> clock,
                       admin |-> caller,
                       inflation_rate_bps |-> inflation_rate_bps]
         /\ vault' = vault + INITIAL_SUPPLY
         /\ last' = Result("Initialize", "Ok")
         /\ UNCHANGED <<clock, pending, wallet, user_claim, History>>

(***************************************************************************)
(* trigger_inflation::process                                              *)
(***************************************************************************)
\* supply * rate * elapsed / 10000 / SECONDS_PER_YEAR; -1 stands for Overflow
inflation_amount(current_supply, inflation_rate_bps, elapsed) ==
    LET m1 == checked_mul_u128(current_supply, inflation_rate_bps)
        m2 == IF m1 = -1 THEN -1 ELSE checked_mul_u128(m1, i64_as_u128(elapsed))
    IN  IF m2 = -1 THEN -1
        ELSE u128_as_u64((m2 \div 10000) \div SECONDS_PER_YEAR)

\* a handler whose additions wrap instead of failing
TriggerInflationErr_Unchecked(caller) ==
    IF caller = NoSigner THEN "Unauthorized"
    ELSE IF config.discriminator = "empty" THEN "InvalidOwner"
    ELSE IF caller # config.admin THEN "Unauthorized"
    ELSE LET elapsed == saturating_sub(clock, config.last_inflation_ts)
             amount == inflation_amount(config.current_supply,
                                        config.inflation_rate_bps, elapsed)
         IN  IF elapsed <= 0 THEN "InflationNotReady"
             ELSE IF amount = -1 THEN "Overflow"
             ELSE IF amount = 0 THEN "InflationNotReady"
             ELSE "Ok"

\* a handler that goes on to mint when the amount rounds down to zero
TriggerInflationErr_MintsZero(caller) ==
    IF caller = NoSigner THEN "Unauthorized"
    ELSE IF config.discriminator = "empty" THEN "InvalidOwner"
    ELSE IF caller # config.admin THEN "Unauthorized"
    ELSE LET elapsed == saturating_sub(clock, config.last_inflation_ts)
             amount == inflation_amount(config.current_supply,
                                        config.inflation_rate_bps, elapsed)
         IN  IF elapsed <= 0 THEN "InflationNotReady"
             ELSE IF amount = -1 THEN "Overflow"
             ELSE IF MintSupply + amount > U64_MAX THEN "TokenOverflow"
             ELSE IF config.current_supply + amount > U64_MAX THEN "Overflow"
             ELSE "Ok"

TriggerInflationErr(caller) ==
    IF caller = NoSigner THEN "Unauthorized"
    ELSE IF config.discriminator = "empty" THEN "InvalidOwner"
    ELSE IF caller # config.admin THEN "Unauthorized"
    ELSE LET elapsed == saturating_sub(clock, config.last_inflation_ts)
             amount == inflation_amount(config.current_supply,
                                        config.inflation_rate_bps, elapsed)
         IN  IF elapsed <= 0 THEN "InflationNotReady"
             ELSE IF amount = -1 THEN "Overflow"
             ELSE IF amount = 0 THEN "InflationNotReady"
             ELSE IF MintSupply + amount > U64_MAX THEN "TokenOverflow"
             ELSE IF config.current_supply + amount > U64_MAX THEN "Overflow"
             ELSE "Ok"

TriggerInflation(caller) ==
    LET err == TriggerInflationErr(caller)
        amount == inflation_amount(config.current_supply, config.inflation_rate_bps,
                                   saturating_sub(clock, config.last_inflation_ts))
    IN  IF err # "Ok" THEN Rejected("TriggerInflation", err)
        ELSE /\ vault' = vault + amount
             /\ config' = [config EXCEPT !.current_supply = @ + amount,
                                         !.last_inflation_ts = clock]
             /\ last' = Result("TriggerInflation", "Ok")
             /\ UNCHANGED <<clock, pending, wallet, user_claim, History>>

(***************************************************************************)
(* distribute::process                                                     *)
(***************************************************************************)
\* a ceiling that forgets the elapsed time
available_WholePool(elapsed, vault_balance) == vault_balance

\* (elapsed as u128).checked_mul(vault_balance as u128).unwrap_or(0)
\*     .checked_div(SECONDS_PER_YEAR as u128).unwrap_or(0) as u64
available(elapsed, vault_balance) ==
    LET m == checked_mul_u128(i64_as_u128(elapsed), vault_balance)
    IN  u128_as_u64((IF m = -1 THEN 0 ELSE m) \div SECONDS_PER_YEAR)

\* a handler that treats a zero amount as malformed, as Claim and Burn do
DistributeErr_RejectsZero(caller, amount, merkle_root) ==
    IF caller = NoSigner THEN "Unauthorized"
    ELSE IF amount = 0 THEN "InvalidInstruction"
    ELSE IF config.discriminator = "empty" THEN "InvalidOwner"
    ELSE IF caller # config.merkle_updater THEN "Unauthorized"
    ELSE IF amount > available(saturating_sub(clock, config.last_distribution_ts), vault)
         THEN "ExceedsDailyAllocation"
    ELSE IF amount > 0 /\ vault < amount THEN "TokenInsufficientFunds"
    ELSE IF amount > 0 /\ pending + amount > U64_MAX THEN "TokenOverflow"
    ELSE "Ok"

DistributeErr(caller, amount, merkle_root) ==
    IF caller = NoSigner THEN "Unauthorized"
    ELSE IF config.discriminator = "empty" THEN "InvalidOwner"
    ELSE IF caller # config.merkle_updater THEN "Unauthorized"
    ELSE IF amount > available(saturating_sub(clock, config.last_distribution_ts), vault)
         THEN "ExceedsDailyAllocation"
    ELSE IF amount > 0 /\ vault < amount THEN "TokenInsufficientFunds"
    ELSE IF amount > 0 /\ pending + amount > U64_MAX THEN "TokenOverflow"
    ELSE "Ok"

\* a distribution that leaves last_distribution_ts where it was
Distribute_KeepsWatermark(caller, amount, merkle_root) ==
    LET err == DistributeErr(caller, amount, merkle_root) IN
    IF err # "Ok" THEN Rejected("Distribute", err)
    ELSE /\ vault' = IF amount > 0 THEN vault - amount ELSE vault
         /\ pending' = IF amount > 0 THEN pending + amount ELSE pending
         /\ config' = [config EXCEPT !.merkle_root = merkle_root]
         /\ last' = Result("Distribute", "Ok")
         /\ UNCHANGED <<clock, wallet, user_claim, History>>

Distribute(caller, amount, merkle_root) ==
    LET err == DistributeErr(caller, amount, merkle_root) IN
    IF err # "Ok" THEN Rejected("Distribute", err)
    ELSE /\ vault' = IF amount > 0 THEN vault - amount ELSE vault
         /\ pending' = IF amount > 0 THEN pending + amount ELSE pending
         /\ config' = [config EXCEPT !.merkle_root = merkle_root,
                                     !.last_distribution_ts = clock]
         /\ last' = Result("Distribute", "Ok")
         /\ UNCHANGED <<clock, wallet, user_claim, History>>

(***************************************************************************)
(* claim::process                                                          *)
(***************************************************************************)
\* claimed_amount of the UserClaimStatus loaded or created for the signer
claimed_of(user) ==
    IF user_claim[user].discriminator = "empty" THEN 0
    ELSE user_claim[user].claimed_amount

\* a delta that forgets what was paid before
claimable_Whole(amount, claimed_amount) ==
    IF amount < claimed_amount THEN -1 ELSE amount

\* a delta taken as a distance, so a smaller entitlement still pays
claimable_AbsDiff(amount, claimed_amount) ==
    IF amount < claimed_amount THEN claimed_amount - amount ELSE amount - claimed_amount

\* amount.checked_sub(claimed_amount); -1 stands for None
claimable(amount, claimed_amount) ==
    IF amount < claimed_amount THEN -1 ELSE amount - claimed_amount

\* a handler that does not verify the proof
ClaimErr_Unverified(caller, amount, proof) ==
    IF caller = NoSigner THEN "Unauthorized"
    ELSE IF amount = 0 THEN "InvalidInstruction"
    ELSE IF Len(proof) > MAX_PROOF_DEPTH THEN "ProofTooLong"
    ELSE IF config.discriminator = "empty" THEN "InvalidOwner"
    ELSE IF config.merkle_root = ZERO_ROOT THEN "NotInitialized"
    ELSE LET c == claimable(amount, claimed_of(caller))
         IN  IF c = -1 THEN "AlreadyClaimed"
             ELSE IF c = 0 THEN "AlreadyClaimed"
             ELSE IF pending < c THEN "TokenInsufficientFunds"
             ELSE IF wallet[caller] + c > U64_MAX THEN "TokenOverflow"
             ELSE "Ok"

\* a handler that accepts a claim of nothing new
ClaimErr_ZeroDelta(caller, amount, proof) ==
    IF caller = NoSigner THEN "Unauthorized"
    ELSE IF amount = 0 THEN "InvalidInstruction"
    ELSE IF Len(proof) > MAX_PROOF_DEPTH THEN "ProofTooLong"
    ELSE IF config.discriminator = "empty" THEN "InvalidOwner"
    ELSE IF config.merkle_root = ZERO_ROOT THEN "NotInitialized"
    ELSE IF ~verify_proof(proof, config.merkle_root, compute_leaf(caller, amount))
         THEN "InvalidProof"
    ELSE LET c == claimable(amount, claimed_of(caller))
         IN  IF c = -1 THEN "AlreadyClaimed"
             ELSE IF pending < c THEN "TokenInsufficientFunds"
             ELSE IF wallet[caller] + c > U64_MAX THEN "TokenOverflow"
             ELSE "Ok"

\* a handler that reads the claim record before it verifies the proof
ClaimErr_RecordFirst(caller, amount, proof) ==
    IF caller = NoSigner THEN "Unauthorized"
    ELSE IF amount = 0 THEN "InvalidInstruction"
    ELSE IF Len(proof) > MAX_PROOF_DEPTH THEN "ProofTooLong"
    ELSE IF config.discriminator = "empty" THEN "InvalidOwner"
    ELSE IF config.merkle_root = ZERO_ROOT THEN "NotInitialized"
    ELSE LET c == claimable(amount, claimed_of(caller))
         IN  IF c = -1 THEN "AlreadyClaimed"
             ELSE IF c = 0 THEN "AlreadyClaimed"
             ELSE IF ~verify_proof(proof, config.merkle_root,
                                   compute_leaf(caller, amount))
                  THEN "InvalidProof"
             ELSE IF pending < c THEN "TokenInsufficientFunds"
             ELSE IF wallet[caller] + c > U64_MAX THEN "TokenOverflow"
             ELSE "Ok"

\* a handler whose depth gate is off by one
ClaimErr_DepthOffByOne(caller, amount, proof) ==
    IF caller = NoSigner THEN "Unauthorized"
    ELSE IF amount = 0 THEN "InvalidInstruction"
    ELSE IF Len(proof) >= MAX_PROOF_DEPTH THEN "ProofTooLong"
    ELSE IF config.discriminator = "empty" THEN "InvalidOwner"
    ELSE IF config.merkle_root = ZERO_ROOT THEN "NotInitialized"
    ELSE IF ~verify_proof(proof, config.merkle_root, compute_leaf(caller, amount))
         THEN "InvalidProof"
    ELSE LET c == claimable(amount, claimed_of(caller))
         IN  IF c = -1 THEN "AlreadyClaimed"
             ELSE IF c = 0 THEN "AlreadyClaimed"
             ELSE IF pending < c THEN "TokenInsufficientFunds"
             ELSE IF wallet[caller] + c > U64_MAX THEN "TokenOverflow"
             ELSE "Ok"

\* a handler that takes a zero amount through the ordinary checks
ClaimErr_ZeroUnchecked(caller, amount, proof) ==
    IF caller = NoSigner THEN "Unauthorized"
    ELSE IF Len(proof) > MAX_PROOF_DEPTH THEN "ProofTooLong"
    ELSE IF config.discriminator = "empty" THEN "InvalidOwner"
    ELSE IF config.merkle_root = ZERO_ROOT THEN "NotInitialized"
    ELSE IF ~verify_proof(proof, config.merkle_root, compute_leaf(caller, amount))
         THEN "InvalidProof"
    ELSE LET c == claimable(amount, claimed_of(caller))
         IN  IF c = -1 THEN "AlreadyClaimed"
             ELSE IF c = 0 THEN "AlreadyClaimed"
             ELSE IF pending < c THEN "TokenInsufficientFunds"
             ELSE IF wallet[caller] + c > U64_MAX THEN "TokenOverflow"
             ELSE "Ok"

\* a handler that verifies against whatever root is stored
ClaimErr_AnyRoot(caller, amount, proof) ==
    IF caller = NoSigner THEN "Unauthorized"
    ELSE IF amount = 0 THEN "InvalidInstruction"
    ELSE IF Len(proof) > MAX_PROOF_DEPTH THEN "ProofTooLong"
    ELSE IF config.discriminator = "empty" THEN "InvalidOwner"
    ELSE IF ~verify_proof(proof, config.merkle_root, compute_leaf(caller, amount))
         THEN "InvalidProof"
    ELSE LET c == claimable(amount, claimed_of(caller))
         IN  IF c = -1 THEN "AlreadyClaimed"
             ELSE IF c = 0 THEN "AlreadyClaimed"
             ELSE IF pending < c THEN "TokenInsufficientFunds"
             ELSE IF wallet[caller] + c > U64_MAX THEN "TokenOverflow"
             ELSE "Ok"

\* a handler that pays without looking at what the pending pool holds
ClaimErr_Unfunded(caller, amount, proof) ==
    IF caller = NoSigner THEN "Unauthorized"
    ELSE IF amount = 0 THEN "InvalidInstruction"
    ELSE IF Len(proof) > MAX_PROOF_DEPTH THEN "ProofTooLong"
    ELSE IF config.discriminator = "empty" THEN "InvalidOwner"
    ELSE IF config.merkle_root = ZERO_ROOT THEN "NotInitialized"
    ELSE IF ~verify_proof(proof, config.merkle_root, compute_leaf(caller, amount))
         THEN "InvalidProof"
    ELSE LET c == claimable(amount, claimed_of(caller))
         IN  IF c = -1 THEN "AlreadyClaimed"
             ELSE IF c = 0 THEN "AlreadyClaimed"
             ELSE IF wallet[caller] + c > U64_MAX THEN "TokenOverflow"
             ELSE "Ok"

ClaimErr(caller, amount, proof) ==
    IF caller = NoSigner THEN "Unauthorized"
    ELSE IF amount = 0 THEN "InvalidInstruction"
    ELSE IF Len(proof) > MAX_PROOF_DEPTH THEN "ProofTooLong"
    ELSE IF config.discriminator = "empty" THEN "InvalidOwner"
    ELSE IF config.merkle_root = ZERO_ROOT THEN "NotInitialized"
    ELSE IF ~verify_proof(proof, config.merkle_root, compute_leaf(caller, amount))
         THEN "InvalidProof"
    ELSE LET c == claimable(amount, claimed_of(caller))
         IN  IF c = -1 THEN "AlreadyClaimed"
             ELSE IF c = 0 THEN "AlreadyClaimed"
             ELSE IF pending < c THEN "TokenInsufficientFunds"
             ELSE IF wallet[caller] + c > U64_MAX THEN "TokenOverflow"
             ELSE "Ok"

\* a handler that records the delta paid instead of the cumulative amount
Claim_StoresDelta(caller, amount, proof) ==
    LET err == ClaimErr(caller, amount, proof)
        c == claimable(amount, claimed_of(caller))
    IN  /\ last' = Result("Claim", err)
        /\ IF err # "Ok" THEN UNCHANGED <<clock, Ledger, History>>
           ELSE /\ pending' = pending - c
                /\ wallet' = [wallet EXCEPT ![caller] = @ + c]
                /\ user_claim' =
                       [user_claim EXCEPT ![caller] =
                           [discriminator |-> "yapclaim",
                            claimed_amount |-> c,
                            total_burned |-> user_claim[caller].total_burned]]
                /\ received' = [received EXCEPT ![caller] = @ + c]
                /\ redeemed' = redeemed \cup {<<caller, amount, proof>>}
                /\ UNCHANGED <<clock, config, vault>>

\* a claim whose freshly created record outlives the failure of the transfer
Claim_KeepsNewRecord(caller, amount, proof) ==
    LET err == ClaimErr(caller, amount, proof)
        c == claimable(amount, claimed_of(caller))
    IN  /\ last' = Result("Claim", err)
        /\ IF err = "TokenInsufficientFunds"
           THEN /\ user_claim' =
                       [user_claim EXCEPT ![caller] =
                           [discriminator |-> "yapclaim",
                            claimed_amount |-> claimed_of(caller),
                            total_burned |-> user_claim[caller].total_burned]]
                /\ UNCHANGED <<clock, config, vault, pending, wallet, History>>
           ELSE IF err # "Ok" THEN UNCHANGED <<clock, Ledger, History>>
           ELSE /\ pending' = pending - c
                /\ wallet' = [wallet EXCEPT ![caller] = @ + c]
                /\ user_claim' =
                       [user_claim EXCEPT ![caller] =
                           [discriminator |-> "yapclaim",
                            claimed_amount |-> amount,
                            total_burned |-> user_claim[caller].total_burned]]
                /\ received' = [received EXCEPT ![caller] = @ + c]
                /\ redeemed' = redeemed \cup {<<caller, amount, proof>>}
                /\ UNCHANGED <<clock, config, vault>>

\* a claim paid into the wallet of the first recipient, whoever claims
Claim_PaysFirstRecipient(caller, amount, proof) ==
    LET err == ClaimErr(caller, amount, proof)
        c == claimable(amount, claimed_of(caller))
    IN  /\ last' = Result("Claim", err)
        /\ IF err # "Ok" THEN UNCHANGED <<clock, Ledger, History>>
           ELSE /\ pending' = pending - c
                /\ wallet' = [wallet EXCEPT ![Recipients[1]] = @ + c]
                /\ user_claim' =
                       [user_claim EXCEPT ![caller] =
                           [discriminator |-> "yapclaim",
                            claimed_amount |-> amount,
                            total_burned |-> user_claim[caller].total_burned]]
                /\ received' = [received EXCEPT ![caller] = @ + c]
                /\ redeemed' = redeemed \cup {<<caller, amount, proof>>}
                /\ UNCHANGED <<clock, config, vault>>

Claim(caller, amount, proof) ==
    LET err == ClaimErr(caller, amount, proof)
        c == claimable(amount, claimed_of(caller))
    IN  /\ last' = Result("Claim", err)
        /\ IF err # "Ok" THEN UNCHANGED <<clock, Ledger, History>>
           ELSE /\ pending' = pending - c
                /\ wallet' = [wallet EXCEPT ![caller] = @ + c]
                /\ user_claim' =
                       [user_claim EXCEPT ![caller] =
                           [discriminator |-> "yapclaim",
                            claimed_amount |-> amount,
                            total_burned |-> user_claim[caller].total_burned]]
                /\ received' = [received EXCEPT ![caller] = @ + c]
                /\ redeemed' = redeemed \cup {<<caller, amount, proof>>}
                /\ UNCHANGED <<clock, config, vault>>

(***************************************************************************)
(* burn::process                                                           *)
(***************************************************************************)
BurnErr(caller, amount) ==
    IF caller = NoSigner THEN "Unauthorized"
    ELSE IF amount = 0 THEN "InvalidInstruction"
    ELSE IF config.discriminator = "empty" THEN "InvalidOwner"
    ELSE IF wallet[caller] < amount THEN "TokenInsufficientFunds"
    ELSE IF config.current_supply < amount THEN "Overflow"
    ELSE "Ok"

\* a burn that leaves the recorded supply as it was
Burn_KeepsSupply(caller, amount) ==
    LET err == BurnErr(caller, amount) IN
    IF err # "Ok" THEN Rejected("Burn", err)
    ELSE /\ wallet' = [wallet EXCEPT ![caller] = @ - amount]
         /\ last' = Result("Burn", "Ok")
         /\ UNCHANGED <<clock, config, vault, pending, user_claim, History>>

\* a burn that destroys what the wallet holds when asked for more
Burn_Clamped(caller, amount) ==
    LET err == BurnErr(caller, amount)
        burnt == IF wallet[caller] < amount THEN wallet[caller] ELSE amount
    IN  IF err \notin {"Ok", "TokenInsufficientFunds"} THEN Rejected("Burn", err)
        ELSE /\ wallet' = [wallet EXCEPT ![caller] = @ - burnt]
             /\ config' = [config EXCEPT !.current_supply = @ - burnt]
             /\ last' = Result("Burn", "Ok")
             /\ UNCHANGED <<clock, vault, pending, user_claim, History>>

Burn(caller, amount) ==
    LET err == BurnErr(caller, amount) IN
    IF err # "Ok" THEN Rejected("Burn", err)
    ELSE /\ wallet' = [wallet EXCEPT ![caller] = @ - amount]
         /\ config' = [config EXCEPT !.current_supply = @ - amount]
         /\ last' = Result("Burn", "Ok")
         /\ UNCHANGED <<clock, vault, pending, user_claim, History>>

(***************************************************************************)
(* admin::process_update_merkle_updater, process_update_inflation_rate     *)
(***************************************************************************)
UpdateMerkleUpdaterErr(caller, new_updater) ==
    IF caller = NoSigner THEN "Unauthorized"
    ELSE IF config.discriminator = "empty" THEN "InvalidOwner"
    ELSE IF caller # config.admin THEN "Unauthorized"
    ELSE "Ok"

\* a rotation that is acknowledged and leaves the old updater in place
UpdateMerkleUpdater_KeepsOld(caller, new_updater) ==
    LET err == UpdateMerkleUpdaterErr(caller, new_updater) IN
    IF err # "Ok" THEN Rejected("UpdateMerkleUpdater", err)
    ELSE /\ last' = Result("UpdateMerkleUpdater", "Ok")
         /\ UNCHANGED <<clock, config, vault, pending, wallet, user_claim, History>>

\* a rotation that hands the administration to the new updater as well
UpdateMerkleUpdater_RotatesAdmin(caller, new_updater) ==
    LET err == UpdateMerkleUpdaterErr(caller, new_updater) IN
    IF err # "Ok" THEN Rejected("UpdateMerkleUpdater", err)
    ELSE /\ config' = [config EXCEPT !.merkle_updater = new_updater,
                                     !.admin = new_updater]
         /\ last' = Result("UpdateMerkleUpdater", "Ok")
         /\ UNCHANGED <<clock, vault, pending, wallet, user_claim, History>>

UpdateMerkleUpdater(caller, new_updater) ==
    LET err == UpdateMerkleUpdaterErr(caller, new_updater) IN
    IF err # "Ok" THEN Rejected("UpdateMerkleUpdater", err)
    ELSE /\ config' = [config EXCEPT !.merkle_updater = new_updater]
         /\ last' = Result("UpdateMerkleUpdater", "Ok")
         /\ UNCHANGED <<clock, vault, pending, wallet, user_claim, History>>

\* a handler that stores whatever rate the admin sends
UpdateInflationRateErr_AnyRate(caller, new_rate_bps) ==
    IF caller = NoSigner THEN "Unauthorized"
    ELSE IF config.discriminator = "empty" THEN "InvalidOwner"
    ELSE IF caller # config.admin THEN "Unauthorized"
    ELSE "Ok"

\* a handler that takes a rate in range from any signer
UpdateInflationRateErr_AnySigner(caller, new_rate_bps) ==
    IF caller = NoSigner THEN "Unauthorized"
    ELSE IF new_rate_bps > MAX_INFLATION_BPS THEN "InvalidInstruction"
    ELSE IF config.discriminator = "empty" THEN "InvalidOwner"
    ELSE "Ok"

\* a handler that looks at the config only once it is initialized
UpdateInflationRateErr_Early(caller, new_rate_bps) ==
    IF caller = NoSigner THEN "Unauthorized"
    ELSE IF new_rate_bps > MAX_INFLATION_BPS THEN "InvalidInstruction"
    ELSE IF config.discriminator # "empty" /\ caller # config.admin THEN "Unauthorized"
    ELSE "Ok"

UpdateInflationRateErr(caller, new_rate_bps) ==
    IF caller = NoSigner THEN "Unauthorized"
    ELSE IF new_rate_bps > MAX_INFLATION_BPS THEN "InvalidInstruction"
    ELSE IF config.discriminator = "empty" THEN "InvalidOwner"
    ELSE IF caller # config.admin THEN "Unauthorized"
    ELSE "Ok"

\* a rate change that closes the running inflation period
UpdateInflationRate_Settles(caller, new_rate_bps) ==
    LET err == UpdateInflationRateErr(caller, new_rate_bps) IN
    IF err # "Ok" THEN Rejected("UpdateInflationRate", err)
    ELSE /\ config' = [config EXCEPT !.inflation_rate_bps = new_rate_bps,
                                     !.last_inflation_ts = clock]
         /\ last' = Result("UpdateInflationRate", "Ok")
         /\ UNCHANGED <<clock, vault, pending, wallet, user_claim, History>>

UpdateInflationRate(caller, new_rate_bps) ==
    LET err == UpdateInflationRateErr(caller, new_rate_bps) IN
    IF err # "Ok" THEN Rejected("UpdateInflationRate", err)
    ELSE /\ config' = [config EXCEPT !.inflation_rate_bps = new_rate_bps]
         /\ last' = Result("UpdateInflationRate", "Ok")
         /\ UNCHANGED <<clock, vault, pending, wallet, user_claim, History>>

(***************************************************************************)
(* The host: the cluster clock moves forward between transactions.         *)
(***************************************************************************)
Tick(max_clock) ==
    /\ clock < max_clock
    /\ clock' = clock + 1
    /\ UNCHANGED <<Ledger, History, last>>

\* The first check of every instruction is the signature of account 0, so
\* an unsigned transaction is submitted with one choice of the parameters.
Submitted(caller, params, unsigned_params) ==
    caller # NoSigner \/ params = unsigned_params

\* The instructions a host submits, with parameters drawn from the sets of I.
Step(I) ==
    /\ UNCHANGED probe
    /\ \/ \E caller \in Callers, u \in Pubkeys, r \in I.rates :
              /\ caller \in {Deployer, NoSigner} \/ config.discriminator # "empty"
              /\ Submitted(caller, <<u, r>>, <<Deployer, 0>>)
              /\ Initialize(caller, u, r)
       \/ \E caller \in Callers : TriggerInflation(caller)
       \/ \E caller \in Callers, a \in I.distribute_amounts, r \in I.roots :
              /\ Submitted(caller, <<a, r>>, <<0, ZERO_ROOT>>)
              /\ Distribute(caller, a, r)
       \/ \E caller \in Callers, a \in I.claim_amounts, p \in I.proofs :
              /\ Submitted(caller, <<a, p>>, <<0, <<>>>>)
              /\ Claim(caller, a, p)
       \/ \E caller \in Callers, a \in I.burn_amounts :
              /\ Submitted(caller, a, 0)
              /\ Burn(caller, a)
       \/ \E caller \in Callers, u \in Pubkeys :
              /\ Submitted(caller, u, Deployer)
              /\ UpdateMerkleUpdater(caller, u)
       \/ \E caller \in Callers, r \in I.rates :
              /\ Submitted(caller, r, 0)
              /\ UpdateInflationRate(caller, r)
       \/ Tick(I.max_clock)

\* Redemption in detail: every published tree and proof, a short clock.
ClaimInputs ==
    [rates |-> {MAX_INFLATION_BPS, MAX_INFLATION_BPS + 1},
     distribute_amounts |-> DistributeAmounts,
     roots |-> RootInputs,
     claim_amounts |-> ClaimAmounts,
     proofs |-> ProofInputs,
     burn_amounts |-> BurnAmounts,
     max_clock |-> SECONDS_PER_YEAR \div 2]

Next == Step(ClaimInputs)

Spec == Init /\ [][Next]_vars

\* Emission in detail: rates from none to the cap, amounts around the
\* ceiling, the clock up to MaxClock; one published tree.
FullTable == [i \in 1..Len(Recipients) |-> MaxEntitlement]

EmissionInputs ==
    [rates |-> {0, MAX_INFLATION_BPS, MAX_INFLATION_BPS + 1},
     distribute_amounts |-> {0, INITIAL_SUPPLY \div 2, (INITIAL_SUPPLY \div 2) + 1,
                             INITIAL_SUPPLY, INITIAL_SUPPLY + 1},
     roots |-> {ZERO_ROOT, TreeRoot(LeavesOf(FullTable))},
     claim_amounts |-> {MaxEntitlement},
     proofs |-> {ProofFor(LeavesOf(FullTable), 1)},
     burn_amounts |-> {MaxEntitlement},
     max_clock |-> MaxClock]

EmissionNext == Step(EmissionInputs)

EmissionSpec == Init /\ [][EmissionNext]_vars

\* Redemption by both recipients out of a pending pool that may hold less
\* than the published tree promises: Distribute takes any amount.
RedeemInputs ==
    [rates |-> {MAX_INFLATION_BPS},
     distribute_amounts |-> {0, MaxEntitlement, 2 * MaxEntitlement},
     roots |-> {TreeRoot(LeavesOf(FullTable))},
     claim_amounts |-> {MaxEntitlement},
     proofs |-> {ProofFor(LeavesOf(FullTable), i) : i \in 1..Len(Recipients)},
     burn_amounts |-> {MaxEntitlement},
     max_clock |-> SECONDS_PER_YEAR \div 2]

RedeemNext == Step(RedeemInputs)

RedeemSpec == Init /\ [][RedeemNext]_vars

(***************************************************************************)
(* A host whose clock is not trusted: between transactions the Clock       *)
(* sysvar may show any of SkewClocks, earlier or much later than the       *)
(* timestamps stored in Config.                                            *)
(***************************************************************************)
\* a clock value thousands of years ahead, still an i64
FarClock == (3 * (U64_MAX + 1)) \div 8

SkewClocks == (0..MaxClock) \cup {FarClock}

SetClock(clocks) ==
    /\ \E now \in clocks \ {clock} : clock' = now
    /\ UNCHANGED <<Ledger, History, last, probe>>

SkewInputs ==
    [rates |-> {MAX_INFLATION_BPS},
     distribute_amounts |-> {0, 1, INITIAL_SUPPLY - 1},
     roots |-> {TreeRoot(LeavesOf(FullTable))},
     claim_amounts |-> {MaxEntitlement},
     proofs |-> {ProofFor(LeavesOf(FullTable), 1)},
     burn_amounts |-> {MaxEntitlement},
     max_clock |-> MaxClock]

\* The host stops distributing once the pending pool holds INITIAL_SUPPLY
\* (a rewound clock would otherwise let it drain any vault one unit at a time).
SkewNext ==
    \/ Step(SkewInputs) /\ pending' <= INITIAL_SUPPLY
    \/ SetClock(SkewClocks)

SkewSpec == Init /\ [][SkewNext]_vars

\* The same host with both a zero and a non-zero inflation rate on offer,
\* its clock moving freely between 0 and MaxClock.
RewindInputs ==
    [SkewInputs EXCEPT !.rates = {0, MAX_INFLATION_BPS}]

RewindNext ==
    \/ Step(RewindInputs) /\ pending' <= INITIAL_SUPPLY
    \/ SetClock(0..MaxClock)

RewindSpec == Init /\ [][RewindNext]_vars

(***************************************************************************)
(* Compounding: the admin mints inflation at the highest rate over enough  *)
(* years for current_supply to reach the top of the u64 range.             *)
(***************************************************************************)
MaxYears == 13

CompoundNext ==
    /\ UNCHANGED probe
    /\ \/ \E caller \in {Deployer, NoSigner} :
              /\ clock = 0             \* deployed before the clock is run
              /\ Initialize(caller, Deployer, MAX_INFLATION_BPS)
       \/ \E caller \in Callers : TriggerInflation(caller)
       \/ Tick(MaxYears * SECONDS_PER_YEAR)

CompoundSpec == Init /\ [][CompoundNext]_vars

(***************************************************************************)
(* The verifier alone.  A tree is built over up to MaxLeaves entries with  *)
(* distinct wallets; the path of one entry is presented to verify_proof,   *)
(* as issued or with the proof, the root, the wallet or the amount         *)
(* replaced by a different value.                                          *)
(***************************************************************************)
EntryTables == UNION {[1..n -> 1..MaxEntitlement] : n \in 1..MaxLeaves}
EntryLeaves(t) == [i \in 1..Len(t) |-> compute_leaf(i, t[i])]

RECURSIVE NodesOf(_)
NodesOf(layer) ==
    {layer[i] : i \in 1..Len(layer)}
        \cup (IF Len(layer) = 1 THEN {} ELSE NodesOf(NextLayer(layer)))

\* digests an altered path or root may carry
Replacements(t) == NodesOf(EntryLeaves(t)) \cup {ZERO_ROOT, Raw(1)}

RemoveAt(seq, j) == [k \in 1..(Len(seq) - 1) |-> IF k < j THEN seq[k] ELSE seq[k + 1]]

OtherProofs(t, p) ==
    ({[p EXCEPT ![j] = d] : j \in 1..Len(p), d \in Replacements(t)}
        \cup {RemoveAt(p, j) : j \in 1..Len(p)}
        \cup {Append(p, d) : d \in Replacements(t)}
        \cup {ProofFor(EntryLeaves(t), k) : k \in 1..Len(t)}) \ {p}

Issued(t, i) ==
    [stage |-> "issued", replaced |-> "nothing", entries |-> t,
     proof |-> ProofFor(EntryLeaves(t), i), root |-> TreeRoot(EntryLeaves(t)),
     wallet |-> i, amount |-> t[i], result |-> FALSE]

MerkleInit ==
    /\ clock = 0
    /\ config = EmptyConfig
    /\ vault = 0
    /\ pending = 0
    /\ wallet = [u \in Pubkeys |-> 0]
    /\ user_claim = [u \in Pubkeys |-> EmptyClaim]
    /\ last = [op |-> "none", err |-> "Ok"]
    /\ received = [u \in Pubkeys |-> 0]
    /\ redeemed = {}
    /\ \E t \in EntryTables : \E i \in 1..Len(t) : probe = Issued(t, i)

Verified(presented, what) ==
    [presented EXCEPT
        !.stage = "verified",
        !.replaced = what,
        !.result = verify_proof(presented.proof, presented.root,
                                compute_leaf(presented.wallet, presented.amount))]

VerifyIssued ==
    /\ probe.stage = "issued"
    /\ probe' = Verified(probe, "nothing")
    /\ UNCHANGED <<clock, Ledger, History, last>>

VerifyOtherProof ==
    /\ probe.stage = "issued"
    /\ \E p \in OtherProofs(probe.entries, probe.proof) :
           probe' = Verified([probe EXCEPT !.proof = p], "proof")
    /\ UNCHANGED <<clock, Ledger, History, last>>

VerifyOtherRoot ==
    /\ probe.stage = "issued"
    /\ \E d \in Replacements(probe.entries) \ {probe.root} :
           probe' = Verified([probe EXCEPT !.root = d], "root")
    /\ UNCHANGED <<clock, Ledger, History, last>>

VerifyOtherWallet ==
    /\ probe.stage = "issued"
    /\ \E w \in (1..(MaxLeaves + 1)) \ {probe.wallet} :
           probe' = Verified([probe EXCEPT !.wallet = w], "wallet")
    /\ UNCHANGED <<clock, Ledger, History, last>>

VerifyOtherAmount ==
    /\ probe.stage = "issued"
    /\ \E a \in (0..(MaxEntitlement + 1)) \ {probe.amount} :
           probe' = Verified([probe EXCEPT !.amount = a], "amount")
    /\ UNCHANGED <<clock, Ledger, History, last>>

MerkleNext ==
    \/ VerifyIssued
    \/ VerifyOtherProof
    \/ VerifyOtherRoot
    \/ VerifyOtherWallet
    \/ VerifyOtherAmount

MerkleSpec == MerkleInit /\ [][MerkleNext]_vars

(***************************************************************************)
(* Properties of the claim ledger (checked under Spec)                     *)
(***************************************************************************)
\* ClaimErr(c, a, p) is the error a Claim signed by c returns in the current
\* state, and Claim reports it in last; the formulas below that constrain
\* ClaimErr in every reachable state speak of every Claim submitted there.

\* what the record of user holds, read without the handler's helper
Recorded(user) ==
    IF user_claim[user].discriminator = "empty" THEN 0
    ELSE user_claim[user].claimed_amount

\* the proof folds, from the leaf of (user, amount), to the root now published
FoldsToRoot(user, amount, proof) ==
    fold_proof(compute_leaf(user, amount), proof, 1) = config.merkle_root

Untouched == UNCHANGED <<clock, Ledger, History>>

\* the step is a Claim that returned err (only Tick moves the clock, and
\* every instruction leaves its own name in last)
ClaimReturned(err) == clock' = clock /\ last' = Result("Claim", err)

\* C1: a recipient's cumulative_claimed starts at 0 and changes only in a
\* Claim signed by that recipient, to a total_entitlement whose proof folds
\* to the root published at that Claim; so it is 0 or the largest amount
\* the recipient has proven and redeemed.
C1_ClaimedIsProven ==
    /\ [](\A u \in Pubkeys :
             \/ Recorded(u) = 0 /\ \A t \in redeemed : t[1] # u
             \/ /\ \E t \in redeemed : t[1] = u /\ t[2] = Recorded(u)
                /\ \A t \in redeemed : t[1] = u => t[2] <= Recorded(u))
    /\ [][\A u \in Pubkeys :
             Recorded(u)' # Recorded(u) =>
                 \E p \in ProofInputs :
                     /\ Claim(u, Recorded(u)', p)
                     /\ last'.err = "Ok"
                     /\ Len(p) <= MAX_PROOF_DEPTH
                     /\ FoldsToRoot(u, Recorded(u)', p)]_vars

C1_Witness ==
    /\ last = Result("Claim", "Ok")
    /\ Recorded(Recipients[2]) = MaxEntitlement
    /\ Recorded(Recipients[1]) = 0
    /\ \E p \in ProofInputs : FoldsToRoot(Recipients[2], MaxEntitlement, p)

\* C2: for every recipient the tokens its Claims moved into its wallet add
\* up to its cumulative_claimed.
C2_ReceivedEqualsClaimed == \A u \in Pubkeys : received[u] = Recorded(u)

C2_Witness ==
    \E u \in Pubkeys :
        /\ received[u] = MaxEntitlement
        /\ Cardinality({t \in redeemed : t[1] = u}) >= 2

\* C3: no step of the system lowers a recipient's cumulative_claimed.
C3_ClaimedNeverDecreases ==
    [][\A u \in Pubkeys : Recorded(u)' >= Recorded(u)]_vars

C3_Witness ==
    /\ last = Result("Distribute", "Ok")
    /\ \E t \in Tables :
           /\ config.merkle_root = TreeRoot(LeavesOf(t))
           /\ t[1] < Recorded(Recipients[1])

\* C4: a successful Claim of total_entitlement moves exactly
\* total_entitlement - cumulative_claimed(before) from the pending pool to
\* the signer's wallet and records total_entitlement; a record that does
\* not exist yet counts as 0.
C4_ClaimPaysTheDelta ==
    [][last' = Result("Claim", "Ok") =>
          \A c \in Pubkeys, a \in ClaimAmounts, p \in ProofInputs :
              Claim(c, a, p) =>
                  /\ a > Recorded(c)
                  /\ pending' = pending - (a - Recorded(c))
                  /\ wallet' = [wallet EXCEPT ![c] = @ + (a - Recorded(c))]
                  /\ user_claim'[c].discriminator = "yapclaim"
                  /\ user_claim'[c].claimed_amount = a
                  /\ \A u \in Pubkeys \ {c} : user_claim'[u] = user_claim[u]
                  /\ UNCHANGED <<vault, config>>]_vars

C4_Witness ==
    /\ last = Result("Claim", "Ok")
    /\ \E u \in Pubkeys :
           /\ Recorded(u) = MaxEntitlement
           /\ wallet[u] = MaxEntitlement
           /\ \E t \in redeemed : t[1] = u /\ t[2] < MaxEntitlement
    /\ pending = MaxEntitlement

\* C5 as stated: a pair (total_entitlement, proof) that its recipient has
\* redeemed fails with AlreadyClaimed whenever that recipient submits it
\* again, and nothing is transferred.
C5_ReplayIsAlreadyClaimed ==
    [][last'.op = "Claim" =>
          \A t \in redeemed :
              Claim(t[1], t[2], t[3]) =>
                  last' = Result("Claim", "AlreadyClaimed") /\ Untouched]_vars

\* C5 amended: a redeemed pair never succeeds again and transfers nothing;
\* the error is NotInitialized under an all-zero root, InvalidProof when
\* the proof no longer folds to the published root, and AlreadyClaimed
\* while it still does.
C5_ReplayNeverPays ==
    /\ [](\A t \in redeemed :
             ClaimErr(t[1], t[2], t[3]) =
                 (IF config.merkle_root = ZERO_ROOT THEN "NotInitialized"
                  ELSE IF ~FoldsToRoot(t[1], t[2], t[3]) THEN "InvalidProof"
                  ELSE "AlreadyClaimed"))
    /\ [][(\E err \in {"NotInitialized", "InvalidProof", "AlreadyClaimed"} :
               ClaimReturned(err)) => Untouched]_vars

C5_Witness ==
    /\ last = Result("Claim", "AlreadyClaimed")
    /\ \E t \in redeemed :
           /\ redeemed = {t}
           /\ Recorded(t[1]) = t[2]
           /\ FoldsToRoot(t[1], t[2], t[3])
           /\ \A p \in ProofInputs \ {t[3]}, a \in 1..t[2] : ~FoldsToRoot(t[1], a, p)

\* C6: a signed Claim of a non-zero total_entitlement whose proof (of at
\* most MAX_PROOF_DEPTH elements) folds to the published root, while
\* total_entitlement <= cumulative_claimed, fails with AlreadyClaimed;
\* nothing is transferred and no record changes.
C6_NothingNewIsAlreadyClaimed ==
    /\ [](\A c \in Pubkeys, a \in ClaimAmounts \ {0}, p \in ProofInputs :
             (/\ a <= Recorded(c)
              /\ Len(p) <= MAX_PROOF_DEPTH
              /\ config.discriminator # "empty"
              /\ FoldsToRoot(c, a, p)) =>
                 ClaimErr(c, a, p) = "AlreadyClaimed")
    /\ [][ClaimReturned("AlreadyClaimed") => Untouched]_vars

C6_Witness ==
    /\ last = Result("Claim", "AlreadyClaimed")
    /\ \E u \in Pubkeys, a \in ClaimAmounts \ {0}, p \in ProofInputs :
           /\ a < Recorded(u)
           /\ FoldsToRoot(u, a, p)
           /\ \A v \in Pubkeys \ {u} : Recorded(v) = 0

\* C8: a signed Claim of a non-zero total_entitlement, with a proof of at
\* most MAX_PROOF_DEPTH elements that does not fold to the published
\* non-zero root, fails with InvalidProof whatever the claim record holds;
\* no record is created or changed and nothing is transferred.
C8_BadProofIsInvalidProof ==
    /\ [](\A c \in Pubkeys, a \in ClaimAmounts \ {0}, p \in ProofInputs :
             (/\ Len(p) <= MAX_PROOF_DEPTH
              /\ config.discriminator # "empty"
              /\ config.merkle_root # ZERO_ROOT
              /\ ~FoldsToRoot(c, a, p)) =>
                 ClaimErr(c, a, p) = "InvalidProof")
    /\ [][ClaimReturned("InvalidProof") => Untouched]_vars

C8_Witness ==
    /\ last = Result("Claim", "InvalidProof")
    /\ \A u \in Pubkeys : user_claim[u].discriminator = "empty"
    /\ pending > 0

\* C9: a signed Claim of a non-zero total_entitlement with more than
\* MAX_PROOF_DEPTH (32) proof elements fails with ProofTooLong and changes
\* nothing, even when the proof would fold to the root; a proof of exactly
\* 32 elements is not rejected with ProofTooLong.
C9_ProofDepthGate ==
    /\ [](\A c \in Pubkeys, a \in ClaimAmounts \ {0}, p \in ProofInputs :
             /\ Len(p) > 32 => ClaimErr(c, a, p) = "ProofTooLong"
             /\ Len(p) = 32 => ClaimErr(c, a, p) # "ProofTooLong")
    /\ [][ClaimReturned("ProofTooLong") => Untouched]_vars

C9_Witness ==
    /\ last = Result("Claim", "ProofTooLong")
    /\ config.merkle_root = LongRoot(33)
    /\ <<Recipients[1], 1, LongProof(32)>> \in redeemed

(***************************************************************************)
(* Properties of the verifier (checked under MerkleSpec)                   *)
(***************************************************************************)
\* C7: with a collision-free hash, the path issued for any entry of a tree
\* built by sorted-pair hashing verifies against the tree's root, and
\* stops verifying when the proof, the root, the wallet or the amount is
\* replaced by a different value.
C7_ProofRoundTrip ==
    probe.stage = "verified" => (probe.result <=> probe.replaced = "nothing")

C7_Witness ==
    /\ probe.stage = "verified"
    /\ probe.replaced = "nothing"
    /\ probe.result
    /\ Len(probe.entries) = 3
    /\ Len(probe.proof) = 2

Returned(op, err) == clock' = clock /\ last' = Result(op, err)

\* C11: a successful Distribute(amount, new_root) moves exactly amount from
\* the vault to the pending pool, stores new_root and sets
\* last_distribution_ts to the clock, in one step, and touches nothing
\* else; the distribution authority's Distribute of amount 0 is always
\* accepted.
C11_DistributeEffect ==
    /\ [](config.discriminator # "empty" =>
             \A r \in EmissionInputs.roots :
                 DistributeErr(config.merkle_updater, 0, r) = "Ok")
    /\ [][Returned("Distribute", "Ok") =>
             \A a \in EmissionInputs.distribute_amounts, r \in EmissionInputs.roots :
                 Distribute(config.merkle_updater, a, r) =>
                     /\ vault' = vault - a
                     /\ pending' = pending + a
                     /\ config' = [config EXCEPT !.merkle_root = r,
                                                 !.last_distribution_ts = clock]
                     /\ UNCHANGED <<wallet, user_claim, History>>]_vars

C11_Witness ==
    /\ last = Result("Distribute", "Ok")
    /\ pending = 0
    /\ vault = INITIAL_SUPPLY
    /\ config.merkle_root # ZERO_ROOT
    /\ config.last_distribution_ts = clock
    /\ clock > 0

(***************************************************************************)
(* Properties under a clock that is not trusted (checked under SkewSpec)   *)
(***************************************************************************)
\* C12: while the clock is at or before last_distribution_ts the ceiling
\* is 0 whatever the vault holds, so no Distribute moves any token out of
\* the vault.
C12_NoElapsedNoAllocation ==
    [][(clock' = clock /\ last'.op = "Distribute"
           /\ config.discriminator # "empty"
           /\ clock <= config.last_distribution_ts) =>
          /\ pending' = pending
          /\ vault' = vault]_vars


\* C13: neither last_inflation_ts nor last_distribution_ts is ever moved
\* backwards, whatever values the clock takes.
C13_WatermarksNeverRewind ==
    [][/\ config'.last_inflation_ts >= config.last_inflation_ts
       /\ config'.last_distribution_ts >= config.last_distribution_ts]_vars

\* the inflation formula over the integers, with a single division
ExactInflation(supply, rate, elapsed) ==
    (supply * rate * elapsed) \div (10000 * SECONDS_PER_YEAR)

\* C14: a successful TriggerInflation mints exactly
\* floor(supply * rate * elapsed / (10000 * SECONDS_PER_YEAR)) into the
\* vault, raises current_supply by the same amount and sets
\* last_inflation_ts to the clock.
C14_InflationMintsExactAmount ==
    [][Returned("TriggerInflation", "Ok") =>
          LET exact == ExactInflation(config.current_supply,
                                      config.inflation_rate_bps,
                                      clock - config.last_inflation_ts)
          IN  /\ vault' = vault + exact
              /\ config' = [config EXCEPT !.current_supply = @ + exact,
                                          !.last_inflation_ts = clock]
              /\ UNCHANGED <<pending, wallet, user_claim, History>>]_vars

(* Properties under a clock that moves freely (checked under RewindSpec) *)
\* C15: when the admin calls TriggerInflation and either no time has
\* elapsed since last_inflation_ts (or the clock is behind it) or the
\* inflation amount comes to 0, as it does at rate 0, the call fails with
\* InflationNotReady, and a call that fails so mints nothing and changes
\* neither current_supply nor last_inflation_ts.
C15_NotReadyFailsClosed ==
    /\ [](config.discriminator # "empty" =>
             LET elapsed == clock - config.last_inflation_ts
             IN  (\/ elapsed <= 0
                  \/ ExactInflation(config.current_supply,
                                    config.inflation_rate_bps, elapsed) = 0) =>
                     TriggerInflationErr(config.admin) = "InflationNotReady")
    /\ [][Returned("TriggerInflation", "InflationNotReady") => Untouched]_vars

C15_Witness ==
    /\ last = Result("TriggerInflation", "InflationNotReady")
    /\ clock < config.last_inflation_ts
    /\ config.inflation_rate_bps > 0

(* Properties of compounding inflation (checked under CompoundSpec) *)
\* C16: current_supply and the minted total stay within u64 whatever is
\* minted, and a TriggerInflation by the admin one year after the last one
\* at 10000 bps either succeeds, minting exactly the formula's amount and
\* adding it to current_supply, or fails with an overflow error and leaves
\* everything as it was; it fails only when the sum does not fit in u64.
C16_OverflowSafety ==
    /\ [](config.current_supply <= U64_MAX /\ MintSupply <= U64_MAX)
    /\ [][(/\ clock' = clock
           /\ last'.op = "TriggerInflation"
           /\ last'.err \notin {"Unauthorized", "InvalidOwner"}
           /\ config.inflation_rate_bps = MAX_INFLATION_BPS
           /\ clock - config.last_inflation_ts = SECONDS_PER_YEAR) =>
              LET exact == ExactInflation(config.current_supply,
                                          config.inflation_rate_bps,
                                          SECONDS_PER_YEAR)
              IN  \/ /\ last'.err = "Ok"
                     /\ vault' = vault + exact
                     /\ config'.current_supply = config.current_supply + exact
                     /\ config'.last_inflation_ts = clock
                  \/ /\ last'.err \in {"Overflow", "TokenOverflow"}
                     /\ config.current_supply + exact > U64_MAX
                     /\ Untouched]_vars

C16_Witness ==
    /\ last = Result("TriggerInflation", "TokenOverflow")
    /\ clock - config.last_inflation_ts = SECONDS_PER_YEAR
    /\ config.current_supply > U64_MAX \div 2

(* The quotients before they are narrowed (checked under SkewSpec) *)
\* the u128 value distribute::process casts to u64
distribution_quotient ==
    LET elapsed == saturating_sub(clock, config.last_distribution_ts)
        m == checked_mul_u128(i64_as_u128(elapsed), vault)
    IN  (IF m = -1 THEN 0 ELSE m) \div SECONDS_PER_YEAR

\* the u128 value trigger_inflation::process casts to u64; the handler
\* returns before computing it when elapsed <= 0 or a product overflows
inflation_quotient ==
    LET elapsed == saturating_sub(clock, config.last_inflation_ts)
        m1 == checked_mul_u128(config.current_supply, config.inflation_rate_bps)
        m2 == IF m1 = -1 THEN -1 ELSE checked_mul_u128(m1, i64_as_u128(elapsed))
    IN  IF elapsed <= 0 \/ m2 = -1 THEN 0
        ELSE (m2 \div 10000) \div SECONDS_PER_YEAR

\* C17: in every reachable state and for every value of the clock, the
\* 128-bit quotient of each rate limiter is below 2^64, so that the value
\* narrowed to u64 equals the quotient.
C17_NarrowingIsLossless ==
    config.discriminator # "empty" =>
        /\ distribution_quotient <= U64_MAX
        /\ inflation_quotient <= U64_MAX
        /\ u128_as_u64(distribution_quotient) = distribution_quotient
        /\ u128_as_u64(inflation_quotient) = inflation_quotient

(* Properties of the token balances (checked under Spec) *)
\* C18: in every reachable state the vault balance, the pending-claims
\* balance and the balances of all user wallets add up to current_supply.
C18_SupplyConservation ==
    vault + pending + SumOver(wallet, Pubkeys) = config.current_supply

C18_Witness ==
    /\ last = Result("Burn", "Ok")
    /\ config.current_supply > INITIAL_SUPPLY
    /\ pending > 0
    /\ \E u \in Pubkeys : wallet[u] > 0

(* Properties of the roles and the rate (checked under EmissionSpec) *)
\* callers that are not the admin, and callers that are not the updater
NonAdmins == Callers \ {config.admin}
NonUpdaters == Callers \ {config.merkle_updater}

\* the three instructions whose outcome for a stranger does not depend on
\* the parameters
StrangersRefused ==
    /\ \A caller \in NonUpdaters, a \in EmissionInputs.distribute_amounts,
          r \in EmissionInputs.roots :
           DistributeErr(caller, a, r) = "Unauthorized"
    /\ \A caller \in NonAdmins :
           /\ TriggerInflationErr(caller) = "Unauthorized"
           /\ \A u \in Pubkeys :
                  UpdateMerkleUpdaterErr(caller, u) = "Unauthorized"

\* a refused privileged instruction changes nothing
RefusalsChangeNothing ==
    \A op \in {"Distribute", "TriggerInflation", "UpdateMerkleUpdater",
                "UpdateInflationRate"},
       err \in {"Unauthorized", "InvalidInstruction"} :
        Returned(op, err) => Untouched

\* C19 as stated: once the program is initialized, Distribute by anyone but
\* the merkle updater and TriggerInflation, UpdateMerkleUpdater and
\* UpdateInflationRate by anyone but the admin fail with Unauthorized
\* whatever the parameters, and change nothing.
C19_StrangersAreUnauthorized ==
    /\ [](config.discriminator # "empty" =>
             /\ StrangersRefused
             /\ \A caller \in NonAdmins, r \in EmissionInputs.rates :
                    UpdateInflationRateErr(caller, r) = "Unauthorized")
    /\ [][RefusalsChangeNothing]_vars

\* C19 (amended): as above, except that UpdateInflationRate signed by a
\* non-admin with a rate above MAX_INFLATION_BPS fails with
\* InvalidInstruction instead of Unauthorized; it still changes nothing.
C19_RoleAuthorization ==
    /\ [](config.discriminator # "empty" =>
             /\ StrangersRefused
             /\ \A caller \in NonAdmins, r \in EmissionInputs.rates :
                    UpdateInflationRateErr(caller, r) =
                        IF caller # NoSigner /\ r > MAX_INFLATION_BPS
                        THEN "InvalidInstruction"
                        ELSE "Unauthorized")
    /\ [][RefusalsChangeNothing]_vars

C19_Witness ==
    /\ config.discriminator # "empty"
    /\ last = Result("UpdateInflationRate", "Unauthorized")
    /\ config.merkle_updater # config.admin
    /\ pending > 0

\* C20: inflation_rate_bps is within 0..MAX_INFLATION_BPS in every
\* reachable state; Initialize and UpdateInflationRate refuse a rate above
\* MAX_INFLATION_BPS whoever sends it and then change nothing; and the rate
\* changes only in a successful Initialize or UpdateInflationRate.
C20_RateStaysInRange ==
    /\ [](/\ config.inflation_rate_bps \in 0..MAX_INFLATION_BPS
          /\ \A caller \in Callers, r \in EmissionInputs.rates :
                 r > MAX_INFLATION_BPS =>
                     /\ UpdateInflationRateErr(caller, r) # "Ok"
                     /\ \A u \in Pubkeys : InitializeErr(caller, u, r) # "Ok")
    /\ [][/\ \A op \in {"Initialize", "UpdateInflationRate"} :
                Returned(op, "InvalidInstruction") => Untouched
          /\ config'.inflation_rate_bps # config.inflation_rate_bps =>
                \E op \in {"Initialize", "UpdateInflationRate"} :
                    Returned(op, "Ok")]_vars

C20_Witness ==
    /\ last = Result("UpdateInflationRate", "InvalidInstruction")
    /\ config.discriminator # "empty"
    /\ config.inflation_rate_bps = MAX_INFLATION_BPS
    /\ config.current_supply > INITIAL_SUPPLY

(* Properties of the life cycle (checked under EmissionSpec) *)
\* an initialized config stays initialized, and an Initialize sent to it
\* changes nothing
InitializeIsSpent ==
    config.discriminator # "empty" =>
        /\ config'.discriminator # "empty"
        /\ (clock' = clock /\ last'.op = "Initialize") => Untouched

\* C21 as stated: once Initialize has succeeded, every later Initialize,
\* whoever sends it and whatever its parameters, fails with
\* AlreadyInitialized and changes nothing.
C21_SecondInitializeIsAlreadyInitialized ==
    /\ [](config.discriminator # "empty" =>
             \A caller \in Callers, u \in Pubkeys, r \in EmissionInputs.rates :
                 InitializeErr(caller, u, r) = "AlreadyInitialized")
    /\ [][InitializeIsSpent]_vars

\* C21 (amended): once Initialize has succeeded, every later Initialize
\* fails and changes nothing; it fails with AlreadyInitialized when it is
\* signed and its rate is within MAX_INFLATION_BPS, with Unauthorized when
\* it is not signed and with InvalidInstruction when it is signed with a
\* rate above MAX_INFLATION_BPS.
C21_InitializeIsOneTime ==
    /\ [](config.discriminator # "empty" =>
             \A caller \in Callers, u \in Pubkeys, r \in EmissionInputs.rates :
                 InitializeErr(caller, u, r) =
                     IF caller = NoSigner THEN "Unauthorized"
                     ELSE IF r > MAX_INFLATION_BPS THEN "InvalidInstruction"
                     ELSE "AlreadyInitialized")
    /\ [][InitializeIsSpent]_vars

C21_Witness ==
    /\ last = Result("Initialize", "AlreadyInitialized")
    /\ config.current_supply > INITIAL_SUPPLY
    /\ vault + pending = config.current_supply
    /\ pending > 0

Claimants == {e[1] : e \in redeemed' \ redeemed}

\* C23: a Claim leaves the config and the vault as they were; when it
\* fails it changes no claim record and no balance, and when it succeeds
\* it changes the claim record and the wallet of no user but the one who
\* signed it.
C23_ClaimFrame ==
    [][(clock' = clock /\ last'.op = "Claim") =>
          /\ UNCHANGED <<config, vault>>
          /\ last'.err # "Ok" => UNCHANGED <<user_claim, wallet, pending>>
          /\ last'.err = "Ok" =>
                \E x \in Pubkeys :
                    /\ Claimants = {x}
                    /\ \A u \in Pubkeys \ {x} :
                           /\ user_claim'[u] = user_claim[u]
                           /\ wallet'[u] = wallet[u]]_vars

C23_Witness ==
    /\ last = Result("Claim", "Ok")
    /\ \A u \in Pubkeys : user_claim[u] # EmptyClaim /\ wallet[u] > 0

(* Properties of the order of claims (checked under RedeemSpec) *)
\* the accounts a Claim reads and writes, as a value
Here == [pending |-> pending, wallet |-> wallet, user_claim |-> user_claim]

\* claim::process evaluated on the accounts s: the error it returns
ClaimErrIn(s, caller, amount, proof) ==
    IF caller = NoSigner THEN "Unauthorized"
    ELSE IF amount = 0 THEN "InvalidInstruction"
    ELSE IF Len(proof) > MAX_PROOF_DEPTH THEN "ProofTooLong"
    ELSE IF config.discriminator = "empty" THEN "InvalidOwner"
    ELSE IF config.merkle_root = ZERO_ROOT THEN "NotInitialized"
    ELSE IF ~verify_proof(proof, config.merkle_root, compute_leaf(caller, amount))
         THEN "InvalidProof"
    ELSE LET claimed == IF s.user_claim[caller].discriminator = "empty" THEN 0
                        ELSE s.user_claim[caller].claimed_amount
             c == claimable(amount, claimed)
         IN  IF c = -1 THEN "AlreadyClaimed"
             ELSE IF c = 0 THEN "AlreadyClaimed"
             ELSE IF s.pending < c THEN "TokenInsufficientFunds"
             ELSE IF s.wallet[caller] + c > U64_MAX THEN "TokenOverflow"
             ELSE "Ok"

\* ... and the accounts it leaves, with the amount it transferred
\* a claim that keeps one claimed amount for all recipients
ClaimIn_OneRecord(s, caller, amount, proof) ==
    LET err == ClaimErrIn(s, caller, amount, proof)
        claimed == IF s.user_claim[caller].discriminator = "empty" THEN 0
                   ELSE s.user_claim[caller].claimed_amount
        c == claimable(amount, claimed)
    IN  IF err # "Ok" THEN [err |-> err, paid |-> 0, accounts |-> s]
        ELSE [err |-> "Ok",
              paid |-> c,
              accounts |->
                  [pending |-> s.pending - c,
                   wallet |-> [s.wallet EXCEPT ![caller] = @ + c],
                   user_claim |->
                       [u \in Pubkeys |->
                           [discriminator |-> "yapclaim",
                            claimed_amount |-> amount,
                            total_burned |-> s.user_claim[u].total_burned]]]]

ClaimIn(s, caller, amount, proof) ==
    LET err == ClaimErrIn(s, caller, amount, proof)
        claimed == IF s.user_claim[caller].discriminator = "empty" THEN 0
                   ELSE s.user_claim[caller].claimed_amount
        c == claimable(amount, claimed)
    IN  IF err # "Ok" THEN [err |-> err, paid |-> 0, accounts |-> s]
        ELSE [err |-> "Ok",
              paid |-> c,
              accounts |->
                  [pending |-> s.pending - c,
                   wallet |-> [s.wallet EXCEPT ![caller] = @ + c],
                   user_claim |->
                       [s.user_claim EXCEPT ![caller] =
                           [discriminator |-> "yapclaim",
                            claimed_amount |-> amount,
                            total_burned |-> s.user_claim[caller].total_burned]]]]

\* the requests two different recipients may send
ClaimRequests ==
    [amount : RedeemInputs.claim_amounts, proof : RedeemInputs.proofs]

\* x's request first and y's second gives each request the outcome, and
\* the accounts the final value, that y's first and x's second gives
Commute(x, qx, y, qy) ==
    LET x1 == ClaimIn(Here, x, qx.amount, qx.proof)
        y2 == ClaimIn(x1.accounts, y, qy.amount, qy.proof)
        y1 == ClaimIn(Here, y, qy.amount, qy.proof)
        x2 == ClaimIn(y1.accounts, x, qx.amount, qx.proof)
    IN  /\ x1.err = x2.err /\ x1.paid = x2.paid
        /\ y1.err = y2.err /\ y1.paid = y2.paid
        /\ y2.accounts = x2.accounts

\* ClaimIn on the accounts as they are is what the Claim instruction does
ClaimInIsClaim ==
    /\ [](\A c \in Callers, q \in ClaimRequests :
             ClaimErrIn(Here, c, q.amount, q.proof) = ClaimErr(c, q.amount, q.proof))
    /\ [][(clock' = clock /\ last'.op = "Claim") =>
             \E c \in Callers, q \in ClaimRequests :
                 LET r == ClaimIn(Here, c, q.amount, q.proof)
                 IN  /\ last'.err = r.err
                     /\ Here' = r.accounts]_vars

\* C24 as stated: in every reachable state the claims of two different
\* recipients give the same outcomes and the same final records and
\* pending balance in either order.
C24_ClaimsCommute ==
    \A x \in Pubkeys, y \in Pubkeys, qx \in ClaimRequests, qy \in ClaimRequests :
        x # y => Commute(x, qx, y, qy)

\* C24 (amended): they do whenever the pending pool holds at least the sum
\* of what each of the two claims would transfer if it ran first.
C24_FundedClaimsCommute ==
    /\ ClaimInIsClaim
    /\ [](\A x \in Pubkeys, y \in Pubkeys,
            qx \in ClaimRequests, qy \in ClaimRequests :
             (/\ x # y
              /\ ClaimIn(Here, x, qx.amount, qx.proof).paid
                    + ClaimIn(Here, y, qy.amount, qy.proof).paid <= pending) =>
                 Commute(x, qx, y, qy))

C24_Witness ==
    /\ last = Result("Claim", "Ok")
    /\ \A u \in Pubkeys : wallet[u] > 0 /\ user_claim[u] # EmptyClaim
    /\ pending = 0

(* Properties of Burn (checked under Spec) *)
\* C25: a Burn that succeeds takes exactly the amount asked for from the
\* signer's wallet and from current_supply and changes nothing else; a
\* Burn whose amount exceeds the signer's balance or current_supply is
\* refused, and a refused Burn burns nothing.
C25_BurnIsExact ==
    /\ [](config.discriminator # "empty" =>
             \A caller \in Pubkeys, a \in BurnAmounts :
                 (a > wallet[caller] \/ a > config.current_supply) =>
                     BurnErr(caller, a) # "Ok")
    /\ [][/\ Returned("Burn", "Ok") =>
                \E caller \in Pubkeys, a \in BurnAmounts \ {0} :
                    /\ BurnErr(caller, a) = "Ok"
                    /\ wallet' = [wallet EXCEPT ![caller] = @ - a]
                    /\ config' = [config EXCEPT !.current_supply = @ - a]
                    /\ UNCHANGED <<vault, pending, user_claim>>
          /\ (clock' = clock /\ last'.op = "Burn" /\ last'.err # "Ok") =>
                Untouched]_vars

C25_Witness ==
    /\ last = Result("Burn", "Ok")
    /\ config.current_supply = INITIAL_SUPPLY - MaxEntitlement
    /\ \E u \in Pubkeys : wallet[u] = 0 /\ claimed_of(u) = MaxEntitlement

(* Properties of the identities (checked under EmissionSpec) *)
\* C26: once the program is initialized, the merkle updater and the admin
\* are two different keys.
C26_RolesAreDistinct ==
    config.discriminator # "empty" => config.merkle_updater # config.admin

(* Properties of the fold (checked under MerkleSpec) *)
\* the smaller and the larger of two digests, bytes compared as unsigned
DigestMin(c, s) == IF DigestLess(s, c) THEN s ELSE c
DigestMax(c, s) == IF DigestLess(s, c) THEN c ELSE s

\* the leaf of the presented claim and the digests it may meet
ProbeLeaf == compute_leaf(probe.wallet, probe.amount)
ProbeDigests ==
    Replacements(probe.entries) \cup {ProbeLeaf, probe.root}
        \cup {probe.proof[j] : j \in 1..Len(probe.proof)}

\* C27: a fold step hashes the smaller digest followed by the larger, so
\* it gives the same value for (c, s) and (s, c); the verifier accepts an
\* empty proof exactly when the leaf is the root, and a longer proof
\* exactly when the rest of the proof, started from the step of the leaf
\* with the first sibling, is accepted.
C27_FoldIsOrderAgnostic ==
    /\ \A c \in ProbeDigests, s \in ProbeDigests :
           /\ fold_step(c, s) = keccak_hash(<<DigestMin(c, s), DigestMax(c, s)>>)
           /\ fold_step(c, s) = fold_step(s, c)
    /\ probe.stage = "verified" =>
           IF probe.proof = <<>>
           THEN probe.result <=> (ProbeLeaf = probe.root)
           ELSE probe.result <=>
                    verify_proof(Tail(probe.proof), probe.root,
                                 keccak_hash(<<DigestMin(ProbeLeaf, probe.proof[1]),
                                               DigestMax(ProbeLeaf, probe.proof[1])>>))

C27_Witness ==
    /\ probe.stage = "verified"
    /\ probe.result
    /\ Len(probe.proof) >= 2
    /\ DigestLess(probe.proof[1], ProbeLeaf)
    /\ DigestLess(fold_step(ProbeLeaf, probe.proof[1]), probe.proof[2])

(* Properties of the rotation of the updater (checked under EmissionSpec) *)
\* C28: a successful UpdateMerkleUpdater is signed by the admin and changes
\* merkle_updater to the new key and nothing else; right after it a
\* Distribute signed by the previous updater, when that is another key, is
\* refused as Unauthorized, and a Distribute signed by the new key is not
\* refused as Unauthorized.
C28_RotationIsImmediate ==
    [][\A caller \in Callers, new \in Pubkeys :
           (UpdateMerkleUpdater(caller, new) /\ last'.err = "Ok") =>
               /\ caller = config.admin
               /\ config' = [config EXCEPT !.merkle_updater = new]
               /\ UNCHANGED <<clock, vault, pending, wallet, user_claim>>
               /\ \A prev \in Pubkeys, a \in EmissionInputs.distribute_amounts,
                     r \in EmissionInputs.roots :
                      /\ (prev = config.merkle_updater /\ prev # new) =>
                             (DistributeErr(prev, a, r) = "Unauthorized")'
                      /\ (DistributeErr(new, a, r) # "Unauthorized")']_vars

C28_Witness ==
    /\ last = Result("UpdateMerkleUpdater", "Ok")
    /\ config.merkle_updater # config.admin
    /\ config.merkle_root # ZERO_ROOT
    /\ pending > 0

(* Properties of malformed and early claims (checked under Spec) *)
\* C29: a signed Claim of amount 0 fails with InvalidInstruction whatever
\* its proof, the published root and the amount already claimed, and a
\* Claim that fails so changes nothing.
C29_ZeroClaimIsMalformed ==
    /\ [](\A caller \in Pubkeys, p \in ProofInputs :
             ClaimErr(caller, 0, p) = "InvalidInstruction")
    /\ [][ClaimReturned("InvalidInstruction") => Untouched]_vars

C29_Witness ==
    /\ last = Result("Claim", "InvalidInstruction")
    /\ config.merkle_root # ZERO_ROOT
    /\ \E u \in Pubkeys : claimed_of(u) > 0

\* the program is initialized and the root it holds is all zero
NothingPublished ==
    config.discriminator # "empty" /\ config.merkle_root = ZERO_ROOT

\* while nothing is published a Claim fails and changes nothing
NoClaimOnZeroRoot ==
    (NothingPublished /\ clock' = clock /\ last'.op = "Claim") =>
        (last'.err # "Ok" /\ Untouched)

\* C30 as stated: while merkle_root is all zero, before the first
\* Distribute or after one that publishes the zero root, every Claim fails
\* with NotInitialized and changes nothing.
C30_ZeroRootIsNotInitialized ==
    /\ [](NothingPublished =>
             \A caller \in Pubkeys, a \in ClaimAmounts, p \in ProofInputs :
                 ClaimErr(caller, a, p) = "NotInitialized")
    /\ [][NoClaimOnZeroRoot]_vars

\* C30 (amended): while merkle_root is all zero every Claim fails and
\* changes nothing; it fails with NotInitialized when it is signed, its
\* amount is not 0 and its proof has at most MAX_PROOF_DEPTH elements, and
\* with Unauthorized, InvalidInstruction or ProofTooLong otherwise.
C30_NoClaimBeforePublication ==
    /\ [](NothingPublished =>
             \A caller \in Callers, a \in ClaimAmounts, p \in ProofInputs :
                 ClaimErr(caller, a, p) =
                     IF caller = NoSigner THEN "Unauthorized"
                     ELSE IF a = 0 THEN "InvalidInstruction"
                     ELSE IF Len(p) > MAX_PROOF_DEPTH THEN "ProofTooLong"
                     ELSE "NotInitialized")
    /\ [][NoClaimOnZeroRoot]_vars

C30_Witness ==
    /\ last = Result("Claim", "NotInitialized")
    /\ NothingPublished
    /\ pending > 0
    /\ \E u \in Pubkeys : claimed_of(u) > 0

(* Properties of the order of the life cycle (checked under Spec) *)
\* the instructions other than Initialize
Operations ==
    {"TriggerInflation", "Distribute", "Claim", "Burn", "UpdateMerkleUpdater",
     "UpdateInflationRate"}

\* C31: while the program is not initialized every TriggerInflation,
\* Distribute, Claim, Burn, UpdateMerkleUpdater and UpdateInflationRate is
\* refused, whoever sends it and whatever its parameters, and changes
\* nothing; such an instruction succeeds only on an initialized config.
C31_NothingBeforeInitialize ==
    /\ [](config.discriminator = "empty" =>
             \A caller \in Callers :
                 /\ TriggerInflationErr(caller) # "Ok"
                 /\ \A a \in DistributeAmounts, r \in RootInputs :
                        DistributeErr(caller, a, r) # "Ok"
                 /\ \A a \in ClaimAmounts, p \in ProofInputs :
                        ClaimErr(caller, a, p) # "Ok"
                 /\ \A a \in BurnAmounts : BurnErr(caller, a) # "Ok"
                 /\ \A u \in Pubkeys : UpdateMerkleUpdaterErr(caller, u) # "Ok"
                 /\ \A r \in ClaimInputs.rates :
                        UpdateInflationRateErr(caller, r) # "Ok")
    /\ [][(clock' = clock /\ last'.op \in Operations) =>
             /\ last'.err = "Ok" => config.discriminator # "empty"
             /\ config.discriminator = "empty" => Untouched]_vars

C31_Witness ==
    /\ config.discriminator = "empty"
    /\ last = Result("Claim", "InvalidOwner")
    /\ clock > 0

(* Properties of the cumulative release (checked under RewindSpec) *)
\* tokens moved from the vault to the pending pool since Initialize: what
\* the pool holds and what was claimed out of it
Released == pending + SumOver(received, Pubkeys)

\* no inflation has been minted since Initialize, so that last_inflation_ts
\* is still the time of Initialize and the vault started at INITIAL_SUPPLY
NoInflationYet ==
    /\ config.discriminator # "empty"
    /\ vault + Released = INITIAL_SUPPLY

\* C32: over an interval without TriggerInflation that starts at
\* Initialize and ends at the latest clock value of the run, however many
\* Distribute calls of whatever size were made and whatever the clock
\* showed in between, the tokens released are at most
\* floor((t1 - t0) * B0 / SECONDS_PER_YEAR), with B0 the vault balance and
\* t0 the last_distribution_ts at the start.
C32_CumulativeCeiling ==
    (NoInflationYet /\ clock = MaxClock) =>
        Released <= ((clock - config.last_inflation_ts) * INITIAL_SUPPLY)
                        \div SECONDS_PER_YEAR

(* Properties of repeated emission (checked under EmissionSpec) *)
\* a refused TriggerInflation or Distribute changes nothing
RefusedEmissionChangesNothing ==
    (clock' = clock /\ last'.op \in {"TriggerInflation", "Distribute"}
        /\ last'.err # "Ok") => Untouched

\* right after a successful TriggerInflation the admin's next one is refused
NoSecondInflation ==
    Returned("TriggerInflation", "Ok") =>
        \A c \in Pubkeys :
            c = config.admin => (TriggerInflationErr(c) = "InflationNotReady")'

\* the Distribute request (c, a, r) is the one this step has carried out
DistributeDone(c, a, r) ==
    /\ Returned("Distribute", "Ok")
    /\ c = config.merkle_updater
    /\ a = pending' - pending
    /\ r = config'.merkle_root

\* C33 as stated: when a TriggerInflation or a Distribute has succeeded,
\* the same request sent again at the same clock value fails and changes
\* nothing.
C33_RepeatFails ==
    [][/\ RefusedEmissionChangesNothing
       /\ NoSecondInflation
       /\ \A c \in Pubkeys, a \in EmissionInputs.distribute_amounts,
             r \in EmissionInputs.roots :
              DistributeDone(c, a, r) => (DistributeErr(c, a, r) # "Ok")']_vars

\* C33 (amended): so it is for TriggerInflation and for a Distribute of an
\* amount above 0; a Distribute of amount 0 sent again at the same clock
\* value succeeds again, and leaves every account as it is.
C33_RepeatFailsUnlessZero ==
    [][/\ RefusedEmissionChangesNothing
       /\ NoSecondInflation
       /\ \A c \in Pubkeys, a \in EmissionInputs.distribute_amounts,
             r \in EmissionInputs.roots :
              DistributeDone(c, a, r) =>
                  IF a > 0
                  THEN (DistributeErr(c, a, r) = "ExceedsDailyAllocation")'
                  ELSE /\ (DistributeErr(c, a, r) = "Ok")'
                       /\ (config.merkle_root = r)'
                       /\ (config.last_distribution_ts = clock)']_vars

C33_Witness ==
    /\ last = Result("Distribute", "ExceedsDailyAllocation")
    /\ config.last_distribution_ts = clock
    /\ config.last_inflation_ts = clock
    /\ config.current_supply > INITIAL_SUPPLY
    /\ pending > 0

(* Properties of the pending pool (checked under Spec) *)
\* the sum of all recipients' cumulative_claimed
TotalClaimed == SumOver([u \in Pubkeys |-> Recorded(u)], Pubkeys)

\* the pending pool is filled by Distribute alone, out of the vault
OnlyDistributeFills ==
    pending' > pending =>
        /\ Returned("Distribute", "Ok")
        /\ vault - vault' = pending' - pending

\* and drained by Claim alone, into the wallet of the claimant
OnlyClaimDrains ==
    pending' < pending =>
        /\ ClaimReturned("Ok")
        /\ SumOver(received', Pubkeys) - SumOver(received, Pubkeys)
               = pending - pending'

\* a claim of more than the pool holds, on a proof that verifies
Unfunded(user, amount, proof) ==
    /\ config.discriminator # "empty"
    /\ verify_proof(proof, config.merkle_root, compute_leaf(user, amount))
    /\ amount - Recorded(user) > pending

\* C34: the sum of all recipients' cumulative_claimed is at most what
\* Distribute has moved into the pending pool (what the pool holds plus what
\* claims have taken out of it), and the pool's balance is never negative:
\* a Claim whose proof verifies and whose delta is more than the pool holds
\* fails (with the token program's InsufficientFunds, or ProofTooLong when
\* the proof has more than MAX_PROOF_DEPTH digests), and changes no claim
\* record or balance.
C34_ClaimsAreFunded ==
    /\ [](/\ pending >= 0
          /\ TotalClaimed <= Released
          /\ \A user \in Pubkeys, a \in ClaimAmounts, p \in ProofInputs :
                 Unfunded(user, a, p) =>
                     ClaimErr(user, a, p) =
                         IF Len(p) > MAX_PROOF_DEPTH THEN "ProofTooLong"
                         ELSE "TokenInsufficientFunds")
    /\ [][/\ OnlyDistributeFills
          /\ OnlyClaimDrains
          /\ ClaimReturned("TokenInsufficientFunds") => Untouched]_vars

C34_Witness ==
    /\ last = Result("Claim", "TokenInsufficientFunds")
    /\ TotalClaimed > 0
    /\ \E user \in Pubkeys, a \in ClaimAmounts, p \in ProofInputs :
           Unfunded(user, a, p)

(* Properties of a rate change (checked under EmissionSpec) *)
\* a successful UpdateInflationRate writes the rate and nothing else
RateChangeMintsNothing ==
    (clock' = clock /\ last' = Result("UpdateInflationRate", "Ok")) =>
        /\ config' = [config EXCEPT
                         !.inflation_rate_bps = config'.inflation_rate_bps]
        /\ UNCHANGED <<vault, pending, wallet, user_claim, History>>

\* last_inflation_ts moves in a successful TriggerInflation (or Initialize)
\* and in no other step
OnlyInflationClosesThePeriod ==
    config'.last_inflation_ts # config.last_inflation_ts =>
        \/ Returned("TriggerInflation", "Ok")
        \/ Returned("Initialize", "Ok")

\* a successful TriggerInflation mints at the rate stored when it runs, for
\* all the time since last_inflation_ts
MintsAtTheRateInForce ==
    Returned("TriggerInflation", "Ok") =>
        vault' - vault = ExactInflation(config.current_supply,
                                        config.inflation_rate_bps,
                                        clock - config.last_inflation_ts)

\* a change from rate 0 after time has elapsed: TriggerInflation was refused
\* before it, and is accepted after it whenever the new rate mints at least
\* one unit over that time
ZeroRatePeriodIsMintedLater ==
    (Returned("UpdateInflationRate", "Ok")
        /\ config.inflation_rate_bps = 0
        /\ clock > config.last_inflation_ts) =>
        \A c \in Pubkeys :
            c = config.admin =>
                /\ TriggerInflationErr(c) = "InflationNotReady"
                /\ (ExactInflation(config.current_supply,
                                   config.inflation_rate_bps,
                                   clock - config.last_inflation_ts) > 0
                        => TriggerInflationErr(c) = "Ok")'

\* C35: UpdateInflationRate mints nothing and leaves last_inflation_ts as it
\* was, so the next successful TriggerInflation mints at the new rate for
\* all the time since the last successful inflation, the time before the
\* rate change included: a period spent at rate 0, in which TriggerInflation
\* was refused, is minted at the new rate.
C35_RateChangeIsRetroactive ==
    [][/\ RateChangeMintsNothing
       /\ OnlyInflationClosesThePeriod
       /\ MintsAtTheRateInForce
       /\ ZeroRatePeriodIsMintedLater]_vars

C35_Witness ==
    /\ last = Result("UpdateInflationRate", "Ok")
    /\ config.inflation_rate_bps = MAX_INFLATION_BPS
    /\ config.last_inflation_ts = 0
    /\ clock = MaxClock
    /\ vault + pending = INITIAL_SUPPLY
    /\ TriggerInflationErr(config.admin) = "Ok"

(* Properties of the recorded identities (checked under EmissionSpec) *)
\* the fields of Config that name the administrator and the token accounts
Identities(c) == <<c.admin, c.mint, c.vault, c.pending_claims>>

\* C36: once Initialize has succeeded no instruction changes the admin or
\* the recorded mint, vault and pending_claims addresses: in every state
\* they are the ones Initialize stored, and the admin is never rotated.
C36_IdentitiesAreFixed ==
    /\ [](config.discriminator # "empty" =>
             /\ config.admin \in Pubkeys
             /\ <<config.mint, config.vault, config.pending_claims>>
                    = <<"mint_pda", "vault_pda", "pending_claims_pda">>)
    /\ [][config.discriminator # "empty" =>
              Identities(config') = Identities(config)]_vars

C36_Witness ==
    /\ last = Result("Initialize", "AlreadyInitialized")
    /\ config.merkle_updater # config.admin
    /\ config.inflation_rate_bps = 0
    /\ config.current_supply > INITIAL_SUPPLY
    /\ config.merkle_root # ZERO_ROOT
    /\ pending > 0

====
